---- MODULE Spec2Model ----
(***************************************************************************)
(* The projector element protocol of openslides/core/views.py              *)
(* (ProjectorViewSet): the element mapping ("config") of each projector,   *)
(* its scroll level, and the REST operations that add, prune, update,      *)
(* deactivate, clear and project elements.                                 *)
(*                                                                         *)
(* A projector row is a record of the model fields the views read and      *)
(* write.  A handler loads the row (get_object), computes on its own copy   *)
(* and writes the whole row back (save).  Under Spec every handler runs to  *)
(* completion before the next one starts; under ConcSpec two requests run   *)
(* side by side and the load and the save are separate steps.               *)
(***************************************************************************)
EXTENDS Integers, Sequences, FiniteSets, TLC

\* ---------------------------------------------------------------- bounds
MaxKeys == 2        \* uuid4() is called at most MaxKeys times in a behaviour
MaxLevel == 1       \* control_view requests start at scale and scroll levels up to this size
MaxHistory == 4     \* the history table hands out at most MaxHistory primary keys

\* The projector ids of the requests; all of them exist at the start.
ProjIds == {1, 2}

\* The values set_scroll is given.
ScrollInputs == {0, 1}

\* ------------------------------------------------------- JSON-like values
\* Python's None as the value of an element's "name".
None == "None"

\* isinstance(id, int) is false for this request value (a JSON string, say).
NotInt == -1

\* uuid.UUID(hex=str(key)) raises ValueError for this request value; the keys
\* 1..MaxKeys stand for well-formed 32-digit hex strings.
NotHex == 0

Keys == 1..MaxKeys
KeyInputs == Keys \cup {NotHex}

\* uuid.UUID(hex=str(key)) succeeds
IsHex(key) == key \in Keys

\* Elements that clients send: dicts with and without "name", "stable" and
\* a display field "x".
ElementInputs ==
    { [name |-> "a", x |-> 1],
      [name |-> "b", stable |-> TRUE],
      [x |-> 1] }

\* Partial elements that update_elements merges into stored ones.
PartialInputs ==
    { [name |-> "b", stable |-> FALSE],
      [name |-> None] }

\* The lists of a request body: at most two items of S.
Lists(S) == UNION { [1..m -> S] : m \in 0..2 }

\* element.get("name") is None
NameMissing(element) ==
    ~("name" \in DOMAIN element) \/ element["name"] = None

\* the truth value of value.get("stable")
IsStable(value) ==
    "stable" \in DOMAIN value /\ value["stable"] = TRUE

\* ------------------------------------------------------------------ state
VARIABLES
    Projector,            \* Projector.objects: id -> row, for the ids that exist
    ProjectionDefault,    \* ProjectionDefault.objects: id -> projector_id
    projector_broadcast,  \* config["projector_broadcast"]
    ConfigStore,          \* ConfigStore.objects: key -> value, for the other config keys
    History,              \* History.objects: pk -> element id, and the last pk given
    uuid_count,           \* how many keys uuid4() has handed out
    request,              \* the request just served, until its response is sent
    response,             \* its response: status and detail
    autoupdate,           \* the projector notifications it caused, in order
    before,               \* Projector.objects as that request found them
    found,                \* the projection defaults and the config as it found them
    worker,               \* ConcSpec: each in-flight request and its loaded row
    round                 \* ConcSpec: the requests that overlap, and the state they started from

vars == << Projector, ProjectionDefault, projector_broadcast, ConfigStore,
           History, uuid_count, request, response, autoupdate, before, found, worker, round >>

dbvars == << Projector, ProjectionDefault, projector_broadcast, ConfigStore,
             History, uuid_count >>

\* A fresh projector row.
NewProjector ==
    [ config |-> << >>, scale |-> 0, scroll |-> 0,
      width |-> 1024, height |-> 768, blank |-> FALSE ]

PdIds == 1..2
Workers == 1..2

Idle == [ pc |-> "idle" ]

NoRequest == [ action |-> "none" ]
NoResponse == [ status |-> "none", detail |-> "" ]

\* The config keys that the registry knows, apart from projector_broadcast,
\* with their default values.
ConfigDefaults == [ key \in {"general_event_name"} |-> "OpenSlides" ]

\* ProjectionDefault.objects and the config, as a request finds them.
Settings ==
    [ ProjectionDefault |-> ProjectionDefault,
      projector_broadcast |-> projector_broadcast,
      ConfigStore |-> ConfigStore ]

Init ==
    /\ Projector = [ p \in ProjIds |-> NewProjector ]
    /\ ProjectionDefault = [ d \in PdIds |-> 1 ]
    /\ projector_broadcast = 0
    /\ ConfigStore = ConfigDefaults
    /\ History = [ objects |-> << >>, last_pk |-> 0 ]
    /\ found = [ ProjectionDefault |-> [ d \in PdIds |-> 1 ],
                 projector_broadcast |-> 0,
                 ConfigStore |-> ConfigDefaults ]
    /\ uuid_count = 0
    /\ request = NoRequest
    /\ response = NoResponse
    /\ autoupdate = << >>
    /\ before = [ p \in ProjIds |-> NewProjector ]
    /\ worker = [ w \in Workers |-> Idle ]
    /\ round = [ requests |-> << >>,
                 objects |-> [ p \in ProjIds |-> NewProjector ],
                 uuid_count |-> 0 ]

\* -------------------------------------------------------------- responses
\* What a handler hands back: the response, the row it saved (instance), the
\* number of uuid4() keys it used and the number of save() calls it made.
Ok(instance, minted, saves) ==
    [ status |-> "ok", detail |-> "", instance |-> instance,
      minted |-> minted, saves |-> saves ]

\* raise ValidationError({"detail": detail}): nothing is saved.
Invalid(instance, detail) ==
    [ status |-> "InvalidInput", detail |-> detail, instance |-> instance,
      minted |-> 0, saves |-> 0 ]

\* inform_changed_data(projector), sent by every save() of a projector.
Changed(pk) == [ changed |-> TRUE, collection |-> "core/projector", id |-> pk ]

\* inform_deleted_data([(collection, id)])
Deleted(pk) == [ changed |-> FALSE, collection |-> "core/projector", id |-> pk ]

\* n copies of item
Times(item, n) == [ i \in 1..n |-> item ]

\* serializer.is_valid(): every element of the config is a dict with a
\* non-null name (spec section 3; the serializer is not part of views.py).
is_valid(projector_config) ==
    \A key \in DOMAIN projector_config : ~NameMissing(projector_config[key])

\* The entries of config with stable = true, for the variants below.
prune_stable_by_value(config) ==
    [ key \in { k \in DOMAIN config : IsStable(config[k]) } |-> config[key] ]

\* Variant of activate_loop: an element without a name is skipped and the
\* loop goes on.
RECURSIVE activate_loop_skipping(_, _, _)
activate_loop_skipping(projector_config, data, n) ==
    IF data = << >>
    THEN [ error |-> FALSE, config |-> projector_config ]
    ELSE IF NameMissing(Head(data))
    THEN activate_loop_skipping(projector_config, Tail(data), n)
    ELSE activate_loop_skipping(((n + 1) :> Head(data)) @@ projector_config,
                                Tail(data), n + 1)

\* ------------------------------------------------------ activate_elements
\* The loop of activate_elements: projector_config[uuid.uuid4().hex] = element
\* for each element in turn, stopping at the first one without a name.
\* n is the number of keys handed out so far.
RECURSIVE activate_loop(_, _, _)
activate_loop(projector_config, data, n) ==
    IF data = << >>
    THEN [ error |-> FALSE, config |-> projector_config ]
    ELSE IF NameMissing(Head(data))
    THEN [ error |-> TRUE, config |-> projector_config ]
    ELSE activate_loop(((n + 1) :> Head(data)) @@ projector_config,
                       Tail(data), n + 1)

\* Variant of activate_elements: the loop starts from the stable entries, as
\* in prune, and the scroll level is reset.
activate_elements_pruning(projector_instance, data, n) ==
    LET loop == activate_loop(prune_stable_by_value(projector_instance.config), data, n)
    IN  IF loop.error
        THEN Invalid(projector_instance, "Invalid projector element. Name is missing.")
        ELSE IF ~is_valid(loop.config)
        THEN Invalid(projector_instance, "serializer")
        ELSE Ok([ projector_instance EXCEPT !.config = loop.config, !.scroll = 0 ],
                Len(data), 1)

activate_elements(projector_instance, data, n) ==
    LET loop == activate_loop(projector_instance.config, data, n)
    IN  IF loop.error
        THEN Invalid(projector_instance, "Invalid projector element. Name is missing.")
        ELSE IF ~is_valid(loop.config)
        THEN Invalid(projector_instance, "serializer")
        ELSE Ok([ projector_instance EXCEPT !.config = loop.config ], Len(data), 1)

\* Variant of prune_loop: every element is stored under one and the same
\* key.
RECURSIVE prune_loop_fixed_key(_, _, _)
prune_loop_fixed_key(projector_config, elements, n) ==
    IF elements = << >>
    THEN projector_config
    ELSE prune_loop_fixed_key((1 :> Head(elements)) @@ projector_config,
                              Tail(elements), n + 1)

\* --------------------------------------------------------- prune_elements
\* The second loop of prune: projector_config[uuid.uuid4().hex] = element.
RECURSIVE prune_loop(_, _, _)
prune_loop(projector_config, elements, n) ==
    IF elements = << >>
    THEN projector_config
    ELSE prune_loop(((n + 1) :> Head(elements)) @@ projector_config,
                    Tail(elements), n + 1)

\* Variant of prune_stable: "stable" in value instead of value.get("stable").
prune_stable_by_key(config) ==
    [ key \in { k \in DOMAIN config : "stable" \in DOMAIN config[k] } |-> config[key] ]

\* Variant of prune_stable: no entry is kept.
prune_stable_nothing(config) == << >>

\* The first loop of prune: the entries whose value.get("stable") is true.
prune_stable(config) ==
    [ key \in { k \in DOMAIN config : IsStable(config[k]) } |-> config[key] ]

\* Variant of prune: the scroll level is not reset.
prune_keeping_scroll(projector, elements, n) ==
    LET projector_config == prune_loop(prune_stable(projector.config), elements, n)
    IN  IF ~is_valid(projector_config)
        THEN Invalid(projector, "serializer")
        ELSE Ok([ projector EXCEPT !.config = projector_config ], Len(elements), 1)

\* prune(projector, elements): save the new config, then reset the scroll
\* level with a second save when it is not 0.
prune(projector, elements, n) ==
    LET projector_config == prune_loop(prune_stable(projector.config), elements, n)
    IN  IF ~is_valid(projector_config)
        THEN Invalid(projector, "serializer")
        ELSE Ok([ projector EXCEPT !.config = projector_config, !.scroll = 0 ],
                Len(elements),
                IF projector.scroll # 0 THEN 2 ELSE 1)

\* prune_elements: every element is checked before prune is called.
prune_elements(projector, elements, n) ==
    IF \E i \in 1..Len(elements) : NameMissing(elements[i])
    THEN Invalid(projector, "Invalid projector element. Name is missing.")
    ELSE prune(projector, elements, n)

\* Variant of dict_update: projector_config[key] = request.data[key].
dict_replace(element, value) == value

\* -------------------------------------------------------- update_elements
\* projector_config[key].update(request.data[key]): a field of the update
\* overwrites the stored field of that name, the other stored fields stay.
dict_update(element, value) ==
    [ f \in DOMAIN element \cup DOMAIN value |->
        IF f \in DOMAIN value THEN value[f] ELSE element[f] ]

\* The first loop of update_elements: every key is a hex UUID.
update_keys_wellformed(data) == \A key \in DOMAIN data : IsHex(key)

\* Variant of update_elements: the merged config is saved without the
\* serializer's validation.
update_elements_saving_directly(projector_instance, data) ==
    LET projector_config == projector_instance.config
        updated == [ key \in DOMAIN projector_config |->
                       IF key \in DOMAIN data
                       THEN dict_update(projector_config[key], data[key])
                       ELSE projector_config[key] ]
    IN  IF ~update_keys_wellformed(data)
        THEN Invalid(projector_instance,
                     "Data must be a dictionary with UUIDs as keys and dictionaries as values.")
        ELSE IF \E key \in DOMAIN data : key \notin DOMAIN projector_config
        THEN Invalid(projector_instance, "Invalid projector element. Wrong UUID.")
        ELSE Ok([ projector_instance EXCEPT !.config = updated ], 0, 1)

\* The second loop of update_elements, which raises at a key that is not in
\* the config and saves nothing then.
update_elements(projector_instance, data) ==
    LET projector_config == projector_instance.config
        updated == [ key \in DOMAIN projector_config |->
                       IF key \in DOMAIN data
                       THEN dict_update(projector_config[key], data[key])
                       ELSE projector_config[key] ]
    IN  IF ~update_keys_wellformed(data)
        THEN Invalid(projector_instance,
                     "Data must be a dictionary with UUIDs as keys and dictionaries as values.")
        ELSE IF \E key \in DOMAIN data : key \notin DOMAIN projector_config
        THEN Invalid(projector_instance, "Invalid projector element. Wrong UUID.")
        ELSE IF ~is_valid(updated)
        THEN Invalid(projector_instance, "serializer")
        ELSE Ok([ projector_instance EXCEPT !.config = updated ], 0, 1)

\* ---------------------------------------------------- deactivate_elements
\* del projector_config[key]
dict_del(projector_config, key) ==
    [ k \in DOMAIN projector_config \ {key} |-> projector_config[k] ]

\* Variant of deactivate_loop: projector_config.pop(key, None), which
\* passes over a key that is not there.
RECURSIVE deactivate_loop_pop(_, _)
deactivate_loop_pop(projector_config, data) ==
    IF data = << >>
    THEN [ error |-> FALSE, config |-> projector_config ]
    ELSE deactivate_loop_pop(dict_del(projector_config, Head(data)), Tail(data))

\* The loop of deactivate_elements: del projector_config[key] for each key
\* in turn; a key that is not (or no longer) there raises KeyError.
RECURSIVE deactivate_loop(_, _)
deactivate_loop(projector_config, data) ==
    IF data = << >>
    THEN [ error |-> FALSE, config |-> projector_config ]
    ELSE IF Head(data) \notin DOMAIN projector_config
    THEN [ error |-> TRUE, config |-> projector_config ]
    ELSE deactivate_loop(dict_del(projector_config, Head(data)), Tail(data))

deactivate_elements(projector_instance, data) ==
    LET loop == deactivate_loop(projector_instance.config, data)
    IN  IF \E i \in 1..Len(data) : ~IsHex(data[i])
        THEN Invalid(projector_instance, "Data must be a list of hex UUIDs.")
        ELSE IF loop.error
        THEN Invalid(projector_instance, "Invalid UUID.")
        ELSE IF ~is_valid(loop.config)
        THEN Invalid(projector_instance, "serializer")
        ELSE Ok([ projector_instance EXCEPT !.config = loop.config ], 0, 1)

\* Variant of clear_stable: nothing is filtered out.
clear_stable_keeping_all(config) == config

\* --------------------------------------------------------- clear_elements
\* The loop of clear: the entries whose value.get("stable") is true.
clear_stable(config) ==
    [ key \in { k \in DOMAIN config : IsStable(config[k]) } |-> config[key] ]

\* Variant of clear: the scroll level is reset as in prune.
clear_resetting_scroll(projector) ==
    LET projector_config == clear_stable(projector.config)
    IN  IF ~is_valid(projector_config)
        THEN Invalid(projector, "serializer")
        ELSE Ok([ projector EXCEPT !.config = projector_config, !.scroll = 0 ],
                0, IF projector.scroll # 0 THEN 2 ELSE 1)

\* clear(projector): save the stable entries as the new config.
clear(projector) ==
    LET projector_config == clear_stable(projector.config)
    IN  IF ~is_valid(projector_config)
        THEN Invalid(projector, "serializer")
        ELSE Ok([ projector EXCEPT !.config = projector_config ], 0, 1)

\* ------------------------------------------------------------- set_scroll
set_scroll(projector_instance, data) ==
    IF data = NotInt
    THEN Invalid(projector_instance, "Data must be an int.")
    ELSE Ok([ projector_instance EXCEPT !.scroll = data ], 0, 1)

\* ---------------------------------------------------------------- project
NoPrune == [ given |-> FALSE ]

\* The clear_ids of the requests: existing and destroyed projectors, an id
\* (3) that no projector ever had, and a value that is not an int.
ClearIdInputs ==
    SUBSET ProjIds \cup { ProjIds \cup {3}, ProjIds \cup {NotInt} }

\* request.data of project: clear_ids and the optional prune.
ProjectInputs ==
    [ clear_ids : ClearIdInputs,
      prune : {NoPrune} \cup
              [ given : {TRUE}, id : ProjIds \cup {NotInt}, element : ElementInputs ] ]

\* Variant of project_validate: the name of the element is checked before
\* the projector is looked up.
project_validate_name_first(objects, data) ==
    IF NotInt \in data.clear_ids
    THEN "The id has to be int."
    ELSE IF ~data.prune.given
    THEN ""
    ELSE IF data.prune.id = NotInt
    THEN "The prune projector id has to be int."
    ELSE IF NameMissing(data.prune.element)
    THEN "Invalid projector element. Name is missing."
    ELSE IF data.prune.id \notin DOMAIN objects
    THEN "The projector does not exist"
    ELSE ""

\* The checks of project that come before the first step, in the order of
\* the code; "" when the request passes them all.
project_validate(objects, data) ==
    IF NotInt \in data.clear_ids
    THEN "The id has to be int."
    ELSE IF ~data.prune.given
    THEN ""
    ELSE IF data.prune.id = NotInt
    THEN "The prune projector id has to be int."
    ELSE IF data.prune.id \notin DOMAIN objects
    THEN "The projector does not exist"
    ELSE IF NameMissing(data.prune.element)
    THEN "Invalid projector element. Name is missing."
    ELSE ""

Min(S) == CHOOSE x \in S : \A y \in S : x <= y

\* Variant of project_clear: only the first of the projectors is cleared.
project_clear_first(objects, ids) ==
    IF ids = {}
    THEN [ status |-> "ok", detail |-> "", objects |-> objects, autoupdate |-> << >> ]
    ELSE LET pk == Min(ids)
         IN  [ status |-> "ok", detail |-> "",
               objects |-> [ objects EXCEPT ![pk] = clear(objects[pk]).instance ],
               autoupdate |-> << Changed(pk) >> ]

\* First step of project: self.clear(projector) for every projector of
\* Projector.objects.filter(pk__in=clear_projector_ids).
RECURSIVE project_clear(_, _)
project_clear(objects, ids) ==
    IF ids = {}
    THEN [ status |-> "ok", detail |-> "", objects |-> objects, autoupdate |-> << >> ]
    ELSE LET pk == Min(ids)
             cleared == clear(objects[pk])
             rest == project_clear([ objects EXCEPT ![pk] = cleared.instance ],
                                   ids \ {pk})
         IN  IF cleared.status # "ok"
             THEN [ status |-> cleared.status, detail |-> cleared.detail,
                    objects |-> objects, autoupdate |-> << >> ]
             ELSE [ rest EXCEPT !.autoupdate = << Changed(pk) >> \o @ ]

\* Second step of project: prune the prune projector, loaded after the
\* first step, with the one element.
project_prune(step1, data, n) ==
    IF step1.status # "ok" \/ ~data.prune.given
    THEN [ status |-> step1.status, detail |-> step1.detail, minted |-> 0,
           objects |-> step1.objects, autoupdate |-> step1.autoupdate ]
    ELSE LET pk == data.prune.id
             pruned == prune(step1.objects[pk], << data.prune.element >>, n)
         IN  [ status |-> pruned.status, detail |-> pruned.detail,
               minted |-> pruned.minted,
               objects |-> IF pruned.status = "ok"
                           THEN [ step1.objects EXCEPT ![pk] = pruned.instance ]
                           ELSE step1.objects,
               autoupdate |-> step1.autoupdate \o Times(Changed(pk), pruned.saves) ]

\* Variant of project: the checks are made after the first step.
project_checking_late(objects, data, n) ==
    LET detail == project_validate(objects, data)
        step1 == project_clear(objects, data.clear_ids \cap DOMAIN objects)
    IN  IF detail # ""
        THEN [ status |-> "InvalidInput", detail |-> detail, minted |-> 0,
               objects |-> step1.objects, autoupdate |-> step1.autoupdate ]
        ELSE project_prune(step1, data, n)

project(objects, data, n) ==
    LET detail == project_validate(objects, data)
    IN  IF detail # ""
        THEN [ status |-> "InvalidInput", detail |-> detail, minted |-> 0,
               objects |-> objects, autoupdate |-> << >> ]
        ELSE project_prune(project_clear(objects, data.clear_ids \cap DOMAIN objects),
                           data, n)

\* ----------------------------------------------------- sequential serving
\* get_object() raises Http404 for a pk that names no projector.
NotFound ==
    /\ response' = [ status |-> "NotFound", detail |-> "Not found." ]
    /\ autoupdate' = << >>
    /\ UNCHANGED dbvars

\* A detail route on projector pk run to completion: get_object(), the
\* handler on the loaded row, and the save of the row it returns.  uuid4()
\* hands out at most MaxKeys keys.
Serve(pk, result) ==
    /\ response' = [ status |-> result.status, detail |-> result.detail ]
    /\ autoupdate' = Times(Changed(pk), result.saves)
    /\ uuid_count + result.minted <= MaxKeys
    /\ uuid_count' = uuid_count + result.minted
    /\ Projector' = IF result.status = "ok"
                    THEN [ Projector EXCEPT ![pk] = result.instance ]
                    ELSE Projector
    /\ UNCHANGED << ProjectionDefault, projector_broadcast, ConfigStore, History >>

ActivateElements(pk, data) ==
    /\ request = NoRequest
    /\ before' = Projector
    /\ found' = Settings
    /\ request' = [ action |-> "activate_elements", pk |-> pk, data |-> data ]
    /\ IF pk \in DOMAIN Projector
       THEN Serve(pk, activate_elements(Projector[pk], data, uuid_count))
       ELSE NotFound
    /\ UNCHANGED << worker, round >>

PruneElements(pk, data) ==
    /\ request = NoRequest
    /\ before' = Projector
    /\ found' = Settings
    /\ request' = [ action |-> "prune_elements", pk |-> pk, data |-> data ]
    /\ IF pk \in DOMAIN Projector
       THEN Serve(pk, prune_elements(Projector[pk], data, uuid_count))
       ELSE NotFound
    /\ UNCHANGED << worker, round >>

\* request.data of update_elements: a dict of at most two keys.
UpdateInputs ==
    UNION { [ K -> PartialInputs ] :
              K \in { K \in SUBSET KeyInputs : Cardinality(K) <= 2 } }

UpdateElements(pk, data) ==
    /\ request = NoRequest
    /\ before' = Projector
    /\ found' = Settings
    /\ request' = [ action |-> "update_elements", pk |-> pk, data |-> data ]
    /\ IF ~update_keys_wellformed(data)
       THEN Serve(pk, update_elements(NewProjector, data))
       ELSE IF pk \in DOMAIN Projector
       THEN Serve(pk, update_elements(Projector[pk], data))
       ELSE NotFound
    /\ UNCHANGED << worker, round >>

DeactivateElements(pk, data) ==
    /\ request = NoRequest
    /\ before' = Projector
    /\ found' = Settings
    /\ request' = [ action |-> "deactivate_elements", pk |-> pk, data |-> data ]
    /\ IF \E i \in 1..Len(data) : ~IsHex(data[i])
       THEN Serve(pk, deactivate_elements(NewProjector, data))
       ELSE IF pk \in DOMAIN Projector
       THEN Serve(pk, deactivate_elements(Projector[pk], data))
       ELSE NotFound
    /\ UNCHANGED << worker, round >>

ClearElements(pk) ==
    /\ request = NoRequest
    /\ before' = Projector
    /\ found' = Settings
    /\ request' = [ action |-> "clear_elements", pk |-> pk ]
    /\ IF pk \in DOMAIN Projector
       THEN Serve(pk, clear(Projector[pk]))
       ELSE NotFound
    /\ UNCHANGED << worker, round >>

SetScroll(pk, data) ==
    /\ request = NoRequest
    /\ before' = Projector
    /\ found' = Settings
    /\ request' = [ action |-> "set_scroll", pk |-> pk, data |-> data ]
    /\ IF data = NotInt
       THEN Serve(pk, set_scroll(NewProjector, data))
       ELSE IF pk \in DOMAIN Projector
       THEN Serve(pk, set_scroll(Projector[pk], data))
       ELSE NotFound
    /\ UNCHANGED << worker, round >>

Project(data) ==
    LET result == project(Projector, data, uuid_count)
    IN  /\ request = NoRequest
        /\ before' = Projector
        /\ found' = Settings
        /\ uuid_count + result.minted <= MaxKeys
        /\ request' = [ action |-> "project", data |-> data ]
        /\ response' = [ status |-> result.status, detail |-> result.detail ]
        /\ autoupdate' = result.autoupdate
        /\ uuid_count' = uuid_count + result.minted
        /\ Projector' = result.objects
        /\ UNCHANGED << ProjectionDefault, projector_broadcast, ConfigStore, History, worker, round >>

\* Variant of destroy_defaults: every projection default goes to projector 1.
destroy_defaults_all(defaults, pk) ==
    [ d \in DOMAIN defaults |-> 1 ]

\* The loop of destroy: projection_default.projector_id = 1 for the
\* projection defaults of the projector.
destroy_defaults(defaults, pk) ==
    [ d \in DOMAIN defaults |-> IF defaults[d] = pk THEN 1 ELSE defaults[d] ]

\* destroy: the projection defaults of the projector go to projector 1,
\* broadcast is reset if it is this projector, and the row is deleted.
Destroy(pk) ==
    /\ request = NoRequest
    /\ before' = Projector
    /\ found' = Settings
    /\ request' = [ action |-> "destroy", pk |-> pk ]
    /\ IF pk \in DOMAIN Projector
       THEN /\ ProjectionDefault' = destroy_defaults(ProjectionDefault, pk)
            /\ projector_broadcast' =
                 IF projector_broadcast = pk THEN 0 ELSE projector_broadcast
            /\ Projector' = [ p \in DOMAIN Projector \ {pk} |-> Projector[p] ]
            /\ response' = [ status |-> "ok", detail |-> "" ]
            /\ autoupdate' = << Deleted(pk) >>
            /\ UNCHANGED << ConfigStore, History, uuid_count >>
       ELSE NotFound
    /\ UNCHANGED << worker, round >>

\* return Response(...): the response leaves and the server takes the next
\* request.
Respond ==
    /\ request # NoRequest
    /\ request' = NoRequest
    /\ response' = NoResponse
    /\ autoupdate' = << >>
    /\ before' = Projector
    /\ found' = Settings
    /\ UNCHANGED << dbvars, worker, round >>

Next ==
    \/ \E pk \in ProjIds, data \in Lists(ElementInputs) :
          ActivateElements(pk, data)
    \/ \E pk \in ProjIds, data \in Lists(ElementInputs) :
          PruneElements(pk, data)
    \/ \E pk \in ProjIds, data \in UpdateInputs :
          UpdateElements(pk, data)
    \/ \E pk \in ProjIds, data \in Lists(KeyInputs) :
          DeactivateElements(pk, data)
    \/ \E pk \in ProjIds :
          ClearElements(pk)
    \/ \E pk \in ProjIds, data \in ScrollInputs \cup {NotInt} :
          SetScroll(pk, data)
    \/ \E data \in ProjectInputs :
          Project(data)
    \/ \E pk \in ProjIds :
          Destroy(pk)
    \/ Respond

Spec == Init /\ [][Next]_vars

\* -------------------------------------------------- concurrent requests
\* Two requests served side by side.  get_object() loads the row into the
\* request's own projector_instance; the handler works on that copy and
\* serializer.save() writes the row back.  Nothing in the views locks the row
\* or opens a transaction, so another request may load or save in between.

\* The requests that are served concurrently: activate_elements with one
\* element, deactivate_elements with one key.
ConcRequests ==
    [ action : {"activate_elements"}, pk : ProjIds,
      data : { << element >> : element \in ElementInputs } ]
    \cup
    [ action : {"deactivate_elements"}, pk : ProjIds,
      data : { << key >> : key \in Keys } ]

\* The handler of a request on a loaded row, with n keys handed out so far.
Handle(req, projector_instance, n) ==
    IF req.action = "activate_elements"
    THEN activate_elements(projector_instance, req.data, n)
    ELSE deactivate_elements(projector_instance, req.data)

\* The keys that the requests in flight may still ask of uuid4().
KeysInFlight ==
    Cardinality({ w \in Workers :
                    /\ worker[w].pc = "loaded"
                    /\ worker[w].request.action = "activate_elements" })

\* get_object(): the request loads its row.  A request that starts while no
\* other is in flight opens a round; at most two requests overlap in a round.
Load(w, req) ==
    /\ worker[w].pc = "idle"
    /\ req.pk \in DOMAIN Projector
    /\ req.action = "activate_elements" =>
          uuid_count + KeysInFlight + Len(req.data) <= MaxKeys
    /\ worker' = [ worker EXCEPT ![w] =
                     [ pc |-> "loaded", request |-> req,
                       projector_instance |-> Projector[req.pk] ] ]
    /\ IF \A v \in Workers : worker[v].pc = "idle"
       THEN round' = [ requests |-> << req >>, objects |-> Projector,
                       uuid_count |-> uuid_count ]
       ELSE /\ Len(round.requests) < 2
            /\ round' = [ round EXCEPT !.requests = Append(@, req) ]
    /\ UNCHANGED << dbvars, request, response, autoupdate, before, found >>

\* The rest of the handler: the loop on the loaded config and, unless it
\* raised, serializer.save(), which writes the row of the instance.
Save(w) ==
    /\ worker[w].pc = "loaded"
    /\ LET req == worker[w].request
           result == Handle(req, worker[w].projector_instance, uuid_count)
       IN  /\ uuid_count' = uuid_count + result.minted
           /\ Projector' = IF result.status = "ok"
                           THEN [ Projector EXCEPT ![req.pk] = result.instance ]
                           ELSE Projector
    /\ worker' = [ worker EXCEPT ![w] = Idle ]
    /\ UNCHANGED << ProjectionDefault, projector_broadcast, ConfigStore, History,
                    request, response, autoupdate, before, found, round >>

ConcNext ==
    \/ \E w \in Workers, req \in ConcRequests : Load(w, req)
    \/ \E w \in Workers : Save(w)

ConcSpec == Init /\ [][ConcNext]_vars

\* ---------------------------------------------------------- set_resolution
\* request.data of set_resolution: widths and heights at and next to the
\* limits, a value that is not an int, and a dict without "height".
ResolutionInputs ==
    [ width : {799, 800, 3840, 3841, NotInt}, height : {339, 340, 2880, 2881} ]
    \cup { [ width |-> 800, height |-> NotInt ], [ width |-> 800 ] }

\* Variant of set_resolution: the limits themselves are refused.
set_resolution_exclusive(projector_instance, data) ==
    IF ~("width" \in DOMAIN data) \/ ~("height" \in DOMAIN data)
    THEN Invalid(projector_instance, "A width and a height have to be given.")
    ELSE IF data.width = NotInt \/ data.height = NotInt
    THEN Invalid(projector_instance, "Data has to be integers.")
    ELSE IF data.width <= 800 \/ data.width >= 3840
            \/ data.height <= 340 \/ data.height >= 2880
    THEN Invalid(projector_instance,
                 "The Resolution have to be between 800x340 and 3840x2880.")
    ELSE Ok([ projector_instance EXCEPT !.width = data.width, !.height = data.height ],
            0, 1)

\* set_resolution: the checks in the order of the code, then the two
\* assignments and save().
set_resolution(projector_instance, data) ==
    IF ~("width" \in DOMAIN data) \/ ~("height" \in DOMAIN data)
    THEN Invalid(projector_instance, "A width and a height have to be given.")
    ELSE IF data.width = NotInt \/ data.height = NotInt
    THEN Invalid(projector_instance, "Data has to be integers.")
    ELSE IF data.width < 800 \/ data.width > 3840
            \/ data.height < 340 \/ data.height > 2880
    THEN Invalid(projector_instance,
                 "The Resolution have to be between 800x340 and 3840x2880.")
    ELSE Ok([ projector_instance EXCEPT !.width = data.width, !.height = data.height ],
            0, 1)

\* The checks of set_resolution come before get_object().
SetResolution(pk, data) ==
    /\ request = NoRequest
    /\ before' = Projector
    /\ found' = Settings
    /\ request' = [ action |-> "set_resolution", pk |-> pk, data |-> data ]
    /\ IF set_resolution(NewProjector, data).status # "ok"
       THEN Serve(pk, set_resolution(NewProjector, data))
       ELSE IF pk \in DOMAIN Projector
       THEN Serve(pk, set_resolution(Projector[pk], data))
       ELSE NotFound
    /\ UNCHANGED << worker, round >>

\* -------------------------------------------------------------- broadcast
\* Variant of broadcast: the broadcast moves to pk when another projector
\* has it.
broadcast_switching(value, pk) ==
    IF value = 0 \/ value # pk THEN pk ELSE 0

\* The new value of config["projector_broadcast"].
broadcast(value, pk) ==
    IF value = 0 THEN pk ELSE 0

\* broadcast does not call get_object(): pk is the id of the URL, whether
\* or not that projector exists.
Broadcast(pk) ==
    /\ request = NoRequest
    /\ before' = Projector
    /\ found' = Settings
    /\ request' = [ action |-> "broadcast", pk |-> pk ]
    /\ projector_broadcast' = broadcast(projector_broadcast, pk)
    /\ response' = [ status |-> "ok",
                     detail |-> IF projector_broadcast = 0
                                THEN "Setting projector as broadcast projector was successful."
                                ELSE "Disabling broadcast was successful." ]
    /\ autoupdate' = << >>
    /\ UNCHANGED << Projector, ProjectionDefault, ConfigStore, History, uuid_count,
                    worker, round >>

\* -------------------------------------------------- set_projectiondefault
\* request.data of set_projectiondefault: the ids of the projection
\* defaults, an id (3) that none has, and a value that is not an int.
ProjectionDefaultInputs == PdIds \cup {3, NotInt}

\* Variant of set_projectiondefault: the projector is assigned before it is
\* looked up.
set_projectiondefault_unchecked(objects, defaults, pk, data) ==
    IF data = NotInt
    THEN [ status |-> "InvalidInput", detail |-> "Data must be an int.",
           defaults |-> defaults ]
    ELSE IF data \notin DOMAIN defaults
    THEN [ status |-> "InvalidInput",
           detail |-> "The projectiondefault was not found.", defaults |-> defaults ]
    ELSE [ status |-> IF pk \in DOMAIN objects THEN "ok" ELSE "NotFound",
           detail |-> IF pk \in DOMAIN objects THEN "" ELSE "Not found.",
           defaults |-> [ defaults EXCEPT ![data] = pk ] ]

\* set_projectiondefault: the int check, ProjectionDefault.objects.get(),
\* whose DoesNotExist is turned into a ValidationError, then get_object(),
\* the assignment and save().
set_projectiondefault(objects, defaults, pk, data) ==
    IF data = NotInt
    THEN [ status |-> "InvalidInput", detail |-> "Data must be an int.",
           defaults |-> defaults ]
    ELSE IF data \notin DOMAIN defaults
    THEN [ status |-> "InvalidInput",
           detail |-> "The projectiondefault was not found.", defaults |-> defaults ]
    ELSE IF pk \notin DOMAIN objects
    THEN [ status |-> "NotFound", detail |-> "Not found.", defaults |-> defaults ]
    ELSE [ status |-> "ok", detail |-> "",
           defaults |-> [ defaults EXCEPT ![data] = pk ] ]

SetProjectionDefault(pk, data) ==
    LET result == set_projectiondefault(Projector, ProjectionDefault, pk, data)
    IN  /\ request = NoRequest
        /\ before' = Projector
        /\ found' = Settings
        /\ request' = [ action |-> "set_projectiondefault", pk |-> pk, data |-> data ]
        /\ ProjectionDefault' = result.defaults
        /\ response' = [ status |-> result.status, detail |-> result.detail ]
        /\ autoupdate' = << >>
        /\ UNCHANGED << Projector, projector_broadcast, ConfigStore, History, uuid_count,
                        worker, round >>

\* ----------------------------------------------------- ConfigViewSet.update
\* A value that the validator of every key refuses.
Unacceptable == "unacceptable"

\* The keys and the bodies of the config requests: a key the registry knows
\* and one it does not; bodies with a value, with null and without "value".
ConfigKeyInputs == DOMAIN ConfigDefaults \cup {"unknown_key"}
ConfigBodyInputs ==
    [ value : {"OpenSlides", "Meeting", Unacceptable, None} ] \cup { << >> }

\* config[key] = value of the config registry: what it raises, "" when it
\* stores the value (spec section 4.3; the registry is not part of views.py).
config_setitem(store, key, value) ==
    IF key \notin DOMAIN store THEN "ConfigNotFound"
    ELSE IF value = Unacceptable THEN "ConfigError"
    ELSE ""

\* Variant of config_update: ConfigNotFound is answered like ConfigError.
config_update_not_found_as_invalid(store, key, data) ==
    LET value == IF "value" \in DOMAIN data THEN data.value ELSE None
        raised == config_setitem(store, key, value)
    IN  IF value = None
        THEN [ status |-> "InvalidInput",
               detail |-> "Invalid input. Config value is missing.", store |-> store ]
        ELSE IF raised # ""
        THEN [ status |-> "InvalidInput", detail |-> raised, store |-> store ]
        ELSE [ status |-> "ok", detail |-> "", store |-> [ store EXCEPT ![key] = value ],
               data |-> [ key |-> key, value |-> value ] ]

\* update of ConfigViewSet: the value is taken from the body and checked
\* against None before the registry sees the key; ConfigNotFound becomes
\* Http404 and ConfigError a ValidationError.
config_update(store, key, data) ==
    LET value == IF "value" \in DOMAIN data THEN data.value ELSE None
        raised == config_setitem(store, key, value)
    IN  IF value = None
        THEN [ status |-> "InvalidInput",
               detail |-> "Invalid input. Config value is missing.", store |-> store ]
        ELSE IF raised = "ConfigNotFound"
        THEN [ status |-> "NotFound", detail |-> "Not found.", store |-> store ]
        ELSE IF raised = "ConfigError"
        THEN [ status |-> "InvalidInput", detail |-> raised, store |-> store ]
        ELSE [ status |-> "ok", detail |-> "", store |-> [ store EXCEPT ![key] = value ],
               data |-> [ key |-> key, value |-> value ] ]

ConfigUpdate(key, data) ==
    LET result == config_update(ConfigStore, key, data)
    IN  /\ request = NoRequest
        /\ before' = Projector
        /\ found' = Settings
        /\ request' = [ action |-> "config_update", key |-> key, data |-> data ]
        /\ ConfigStore' = result.store
        /\ response' = IF result.status = "ok"
                       THEN [ status |-> "ok", detail |-> "", data |-> result.data ]
                       ELSE [ status |-> result.status, detail |-> result.detail ]
        /\ autoupdate' = << >>
        /\ UNCHANGED << Projector, ProjectionDefault, projector_broadcast,
                        History, uuid_count, worker, round >>

\* --------------------------------------------- projector and config settings
\* The requests on the settings of the projectors and on the config, each
\* run to completion before the next one starts.
SettingsNext ==
    \/ \E pk \in ProjIds, data \in ResolutionInputs :
          SetResolution(pk, data)
    \/ \E pk \in ProjIds :
          Broadcast(pk)
    \/ \E pk \in ProjIds, data \in ProjectionDefaultInputs :
          SetProjectionDefault(pk, data)
    \/ \E pk \in ProjIds :
          Destroy(pk)
    \/ \E key \in ConfigKeyInputs, data \in ConfigBodyInputs :
          ConfigUpdate(key, data)
    \/ Respond

SettingsSpec == Init /\ [][SettingsNext]_vars

\* ---------------------------------------------------------- clear_history
\* The items of a set of integers in ascending order, the order of
\* History.objects.all().
RECURSIVE Ascending(_)
Ascending(S) ==
    IF S = {} THEN << >> ELSE << Min(S) >> \o Ascending(S \ {Min(S)})

\* inform_deleted_data / inform_changed_data for a history entry.
HistoryDeleted(pk) == [ changed |-> FALSE, collection |-> "core/history", id |-> pk ]
HistoryChanged(pk) == [ changed |-> TRUE, collection |-> "core/history", id |-> pk ]

\* Variant of history_args: the last history object is left out.
history_args_dropping_last(objects) ==
    LET pks == Ascending(DOMAIN objects)
    IN  [ i \in 1..(Len(pks) - 1) |-> HistoryDeleted(pks[i]) ]

\* The first loop of clear_history: args gets the pair
\* (get_collection_string(), pk) of every history object.
history_args(objects) ==
    LET pks == Ascending(DOMAIN objects)
    IN  [ i \in 1..Len(pks) |-> HistoryDeleted(pks[i]) ]

\* History.objects.build_history() on an empty table: one entry for every
\* object that exists, here the projectors, under primary keys that follow
\* last_pk (spec section 4.4; the history manager is not part of views.py).
build_history(objects, last_pk) ==
    LET ids == Ascending(DOMAIN objects)
    IN  [ pk \in (last_pk + 1)..(last_pk + Len(ids)) |->
            [ collection |-> "core/projector", id |-> ids[pk - last_pk] ] ]

\* The history subsystem records a change of projector pk (outside views.py).
RecordHistory(pk) ==
    /\ \A w \in Workers : worker[w].pc = "idle"
    /\ request = NoRequest
    /\ pk \in DOMAIN Projector
    /\ History.last_pk < MaxHistory
    /\ History' = [ objects |-> ((History.last_pk + 1) :>
                                   [ collection |-> "core/projector", id |-> pk ])
                                @@ History.objects,
                    last_pk |-> History.last_pk + 1 ]
    /\ UNCHANGED << Projector, ProjectionDefault, projector_broadcast, ConfigStore,
                    uuid_count, request, response, autoupdate, before, found,
                    worker, round >>

\* The steps of clear_history leave everything but the history table, the
\* notifications and the request's own state alone.
HistoryFrame ==
    UNCHANGED << Projector, ProjectionDefault, projector_broadcast, ConfigStore,
                 uuid_count, request, response, before, found, round >>

\* clear_history, first loop: the request collects args.  started is the
\* table as the call found it.
HistoryCollect(w) ==
    /\ \A v \in Workers : worker[v].pc = "idle"
    /\ request = NoRequest
    /\ History.last_pk + Cardinality(DOMAIN Projector) <= MaxHistory
    /\ worker' = [ worker EXCEPT ![w] =
                     [ pc |-> "collected", args |-> history_args(History.objects),
                       started |-> History.objects ] ]
    /\ autoupdate' = << >>
    /\ UNCHANGED History
    /\ HistoryFrame

\* HistoryData.objects.all().delete(), which deletes the history entries
\* with it (CASCADE).
HistoryDelete(w) ==
    /\ worker[w].pc = "collected"
    /\ History' = [ History EXCEPT !.objects = << >> ]
    /\ worker' = [ worker EXCEPT ![w].pc = "deleted" ]
    /\ UNCHANGED autoupdate
    /\ HistoryFrame

\* if args: inform_deleted_data(args)
HistoryInformDeleted(w) ==
    /\ worker[w].pc = "deleted"
    /\ autoupdate' = autoupdate \o worker[w].args
    /\ worker' = [ worker EXCEPT ![w].pc = "informed" ]
    /\ UNCHANGED History
    /\ HistoryFrame

\* history_instances = History.objects.build_history()
HistoryBuild(w) ==
    /\ worker[w].pc = "informed"
    /\ LET history_instances == build_history(Projector, History.last_pk)
       IN  /\ History' = [ objects |-> history_instances @@ History.objects,
                           last_pk |-> History.last_pk
                                         + Cardinality(DOMAIN history_instances) ]
           /\ worker' = [ worker EXCEPT ![w] =
                            [ pc |-> "rebuilt", args |-> worker[w].args,
                              started |-> worker[w].started,
                              history_instances |-> Ascending(DOMAIN history_instances) ] ]
    /\ UNCHANGED autoupdate
    /\ HistoryFrame

\* inform_changed_data(history_instances)
HistoryInformChanged(w) ==
    /\ worker[w].pc = "rebuilt"
    /\ autoupdate' = autoupdate \o
          [ i \in 1..Len(worker[w].history_instances) |->
              HistoryChanged(worker[w].history_instances[i]) ]
    /\ worker' = [ worker EXCEPT ![w].pc = "done" ]
    /\ UNCHANGED History
    /\ HistoryFrame

\* return Response({"detail": "History was deleted successfully."})
HistoryRespond(w) ==
    /\ worker[w].pc = "done"
    /\ worker' = [ worker EXCEPT ![w] = Idle ]
    /\ autoupdate' = << >>
    /\ UNCHANGED History
    /\ HistoryFrame

\* clear_history requests, one at a time, between changes that the history
\* subsystem records and projectors that are destroyed.
HistoryNext ==
    \/ \E pk \in ProjIds : RecordHistory(pk)
    \/ \E pk \in ProjIds : (Destroy(pk) /\ \A w \in Workers : worker[w].pc = "idle")
    \/ Respond
    \/ HistoryCollect(1)
    \/ HistoryDelete(1)
    \/ HistoryInformDeleted(1)
    \/ HistoryBuild(1)
    \/ HistoryInformChanged(1)
    \/ HistoryRespond(1)

HistorySpec == Init /\ [][HistoryNext]_vars

\* ------------------------------------------------------------ control_view
\* request.data of control_view that passes the checks of the handler.
ControlInputs ==
    [ action : {"scale", "scroll"}, direction : {"up", "down", "reset"} ]

\* Variant of control_view: the new level is computed from the loaded row,
\* projector_instance.scale + 1, instead of F("scale") + 1.
control_view_read_modify_write(projector_instance, stored, data) ==
    [ projector_instance EXCEPT ![data.action] =
        IF data.direction = "up" THEN projector_instance[data.action] + 1
        ELSE IF data.direction = "down" THEN projector_instance[data.action] - 1
        ELSE 0 ]

\* The row that projector_instance.save() writes when stored is the row in
\* the database: the field named by the action is F(field) + 1, F(field) - 1
\* or 0, evaluated by the database on the stored row; save() is called
\* without update_fields, so every other field is written with the value
\* that get_object() loaded.
control_view(projector_instance, stored, data) ==
    [ projector_instance EXCEPT ![data.action] =
        IF data.direction = "up" THEN stored[data.action] + 1
        ELSE IF data.direction = "down" THEN stored[data.action] - 1
        ELSE 0 ]

Abs(i) == IF i < 0 THEN -i ELSE i

\* The control_view requests that are served concurrently.
ControlRequests == [ action : {"control_view"}, pk : ProjIds, data : ControlInputs ]

\* get_object() of control_view: the request loads its row.  Rounds are
\* kept as for Load.  Requests start while the levels are within MaxLevel.
ControlLoad(w, req) ==
    /\ worker[w].pc = "idle"
    /\ req.pk \in DOMAIN Projector
    /\ Abs(Projector[req.pk].scale) <= MaxLevel
    /\ Abs(Projector[req.pk].scroll) <= MaxLevel
    /\ worker' = [ worker EXCEPT ![w] =
                     [ pc |-> "loaded", request |-> req,
                       projector_instance |-> Projector[req.pk] ] ]
    /\ IF \A v \in Workers : worker[v].pc = "idle"
       THEN round' = [ requests |-> << req >>, objects |-> Projector,
                       uuid_count |-> uuid_count ]
       ELSE /\ Len(round.requests) < 2
            /\ round' = [ round EXCEPT !.requests = Append(@, req) ]
    /\ UNCHANGED << dbvars, request, response, autoupdate, before, found >>

\* The rest of control_view: the assignment to the loaded instance and
\* save(skip_autoupdate=True), which writes the row.
ControlSave(w) ==
    /\ worker[w].pc = "loaded"
    /\ LET req == worker[w].request
       IN  Projector' =
             [ Projector EXCEPT ![req.pk] =
                 control_view(worker[w].projector_instance, Projector[req.pk], req.data) ]
    /\ worker' = [ worker EXCEPT ![w] = Idle ]
    /\ UNCHANGED << ProjectionDefault, projector_broadcast, ConfigStore, History, uuid_count,
                    request, response, autoupdate, before, found, round >>

ControlNext ==
    \/ \E w \in Workers, req \in ControlRequests : ControlLoad(w, req)
    \/ \E w \in Workers : ControlSave(w)

ControlSpec == Init /\ [][ControlNext]_vars

\* ------------------------------------------- prune_elements, step by step
\* prune_elements served next to set_scroll.  prune writes the row twice:
\* serializer.save() writes the new config together with the other fields
\* of the loaded instance, and projector.save() writes the row again with
\* scroll = 0 when the loaded scroll level was not 0.  The two saves are
\* not wrapped in a transaction, so another request may load or save
\* between them.

\* The values that set_scroll is given next to a prune.
PruneScrollInputs == {1, 2}

\* The requests that are served concurrently.
PruneRequests ==
    [ action : {"prune_elements"}, pk : ProjIds,
      data : { << >>, << [name |-> "a", x |-> 1] >>, << [x |-> 1] >> } ]
    \cup
    [ action : {"set_scroll"}, pk : ProjIds, data : PruneScrollInputs ]

\* The keys that the prune requests in flight may still ask of uuid4().
PruneKeysInFlight ==
    Cardinality({ w \in Workers :
                    /\ worker[w].pc = "loaded"
                    /\ worker[w].request.action = "prune_elements"
                    /\ worker[w].request.data # << >> })

\* get_object() of prune_elements and of set_scroll: the request loads its
\* row.
PruneLoad(w, req) ==
    /\ worker[w].pc = "idle"
    /\ req.pk \in DOMAIN Projector
    /\ req.action = "prune_elements" =>
          uuid_count + PruneKeysInFlight + Len(req.data) <= MaxKeys
    /\ worker' = [ worker EXCEPT ![w] =
                     [ pc |-> "loaded", request |-> req,
                       projector_instance |-> Projector[req.pk] ] ]
    /\ UNCHANGED << dbvars, request, response, autoupdate, before, found, round >>

\* set_scroll after get_object(): projector_instance.scroll = request.data
\* and projector_instance.save().
ScrollSave(w) ==
    /\ worker[w].pc = "loaded"
    /\ worker[w].request.action = "set_scroll"
    /\ LET req == worker[w].request
           result == set_scroll(worker[w].projector_instance, req.data)
       IN  Projector' = [ Projector EXCEPT ![req.pk] = result.instance ]
    /\ worker' = [ worker EXCEPT ![w] = Idle ]
    /\ UNCHANGED << ProjectionDefault, projector_broadcast, ConfigStore, History,
                    uuid_count, request, response, autoupdate, before, found, round >>

\* prune_elements up to serializer.save(): the checks of the elements, the
\* two loops and the first save, which writes the new config and the scroll
\* level that was loaded.  The request goes on to the reset when the loaded
\* scroll level is not 0 and is over otherwise.
PruneSave(w) ==
    /\ worker[w].pc = "loaded"
    /\ worker[w].request.action = "prune_elements"
    /\ LET req == worker[w].request
           projector == worker[w].projector_instance
           result == prune_elements(projector, req.data, uuid_count)
           saved == [ projector EXCEPT !.config = result.instance.config ]
       IN  IF result.status # "ok"
           THEN /\ worker' = [ worker EXCEPT ![w] = Idle ]
                /\ UNCHANGED << Projector, uuid_count >>
           ELSE /\ uuid_count' = uuid_count + result.minted
                /\ Projector' = [ Projector EXCEPT ![req.pk] = saved ]
                /\ worker' = [ worker EXCEPT ![w] =
                                 IF projector.scroll # 0
                                 THEN [ pc |-> "saved", request |-> req,
                                        projector_instance |-> saved ]
                                 ELSE Idle ]
    /\ UNCHANGED << ProjectionDefault, projector_broadcast, ConfigStore, History,
                    request, response, autoupdate, before, found, round >>

\* The rest of prune: projector.scroll = 0 and projector.save(), which
\* writes the row of the instance.
PruneResetScroll(w) ==
    /\ worker[w].pc = "saved"
    /\ LET req == worker[w].request
       IN  Projector' = [ Projector EXCEPT ![req.pk] =
                            [ worker[w].projector_instance EXCEPT !.scroll = 0 ] ]
    /\ worker' = [ worker EXCEPT ![w] = Idle ]
    /\ UNCHANGED << ProjectionDefault, projector_broadcast, ConfigStore, History,
                    uuid_count, request, response, autoupdate, before, found, round >>

PruneNext ==
    \/ \E w \in Workers, req \in PruneRequests : PruneLoad(w, req)
    \/ \E w \in Workers : ScrollSave(w)
    \/ \E w \in Workers : PruneSave(w)
    \/ \E w \in Workers : PruneResetScroll(w)

PruneSpec == Init /\ [][PruneNext]_vars

\* --------------------------------------------------- project, step by step
\* project served next to destroy.  The checks, the first step and the
\* second step of project read the database one after the other, without a
\* transaction, so a destroy may be served between any two of them.

\* request.data of the project requests that are served next to destroy.
ProjectRequests ==
    [ clear_ids : { {}, {1}, ProjIds },
      prune : {NoPrune} \cup
              [ given : {TRUE}, id : ProjIds,
                element : { [name |-> "a", x |-> 1], [x |-> 1] } ] ]

\* The keys that the project requests in flight may still ask of uuid4().
ProjectKeysInFlight ==
    Cardinality({ w \in Workers :
                    /\ worker[w].pc \in {"checked", "cleared"}
                    /\ worker[w].request.prune.given })

\* What project raises or returns, kept until the response is sent.
ProjectDone(data, status, cleared) ==
    [ pc |-> "done", request |-> data, status |-> status, cleared |-> cleared ]

\* The checks of project, with Projector.objects.filter(pk=...).exists().
ProjectCheck(w, data) ==
    /\ worker[w].pc = "idle"
    /\ data.prune.given => uuid_count + ProjectKeysInFlight + 1 <= MaxKeys
    /\ worker' = [ worker EXCEPT ![w] =
                     IF project_validate(Projector, data) # ""
                     THEN ProjectDone(data, "InvalidInput", FALSE)
                     ELSE [ pc |-> "checked", request |-> data ] ]
    /\ UNCHANGED << dbvars, request, response, autoupdate, before, found, round >>

\* First step of project: the projectors of clear_ids that exist now are
\* cleared.
ProjectClear(w) ==
    /\ worker[w].pc = "checked"
    /\ LET data == worker[w].request
           step1 == project_clear(Projector, data.clear_ids \cap DOMAIN Projector)
       IN  /\ Projector' = step1.objects
           /\ worker' = [ worker EXCEPT ![w] =
                            IF step1.status = "ok" /\ data.prune.given
                            THEN [ pc |-> "cleared", request |-> data ]
                            ELSE ProjectDone(data, step1.status, TRUE) ]
    /\ UNCHANGED << ProjectionDefault, projector_broadcast, ConfigStore, History,
                    uuid_count, request, response, autoupdate, before, found, round >>

\* Second step of project: Projector.objects.get(pk=prune_projector_id),
\* which raises Projector.DoesNotExist when the row is gone (nothing catches
\* it), and self.prune on the row it returns.
ProjectPrune(w) ==
    /\ worker[w].pc = "cleared"
    /\ LET data == worker[w].request
           pk == data.prune.id
       IN  IF pk \notin DOMAIN Projector
           THEN /\ worker' = [ worker EXCEPT ![w] =
                                 ProjectDone(data, "DoesNotExist", TRUE) ]
                /\ UNCHANGED << Projector, uuid_count >>
           ELSE LET pruned == prune(Projector[pk], << data.prune.element >>, uuid_count)
                IN  /\ worker' = [ worker EXCEPT ![w] =
                                     ProjectDone(data, pruned.status, TRUE) ]
                    /\ uuid_count' = uuid_count + pruned.minted
                    /\ Projector' = IF pruned.status = "ok"
                                    THEN [ Projector EXCEPT ![pk] = pruned.instance ]
                                    ELSE Projector
    /\ UNCHANGED << ProjectionDefault, projector_broadcast, ConfigStore, History,
                    request, response, autoupdate, before, found, round >>

\* The response of project, or the error page, leaves.
ProjectRespond(w) ==
    /\ worker[w].pc = "done"
    /\ worker' = [ worker EXCEPT ![w] = Idle ]
    /\ UNCHANGED << dbvars, request, response, autoupdate, before, found, round >>

ProjectNext ==
    \/ \E w \in Workers, data \in ProjectRequests : ProjectCheck(w, data)
    \/ \E w \in Workers : ProjectClear(w)
    \/ \E w \in Workers : ProjectPrune(w)
    \/ \E w \in Workers : ProjectRespond(w)
    \/ \E pk \in ProjIds : Destroy(pk)
    \/ Respond

ProjectSpec == Init /\ [][ProjectNext]_vars

\* ------------------------------------------- the single-projector routes
\* The routes on one projector, served one request at a time.

\* request.data of control_blank as JSON text: the two booleans and a
\* value that is not a bool.
BlankInputs == {"true", "false", "1"}

\* isinstance(request.data, bool)
IsBool(data) == data \in {"true", "false"}

\* Variant of control_blank: the scale level is reset as well.
control_blank_resetting_scale(projector_instance, data) ==
    IF ~IsBool(data)
    THEN Invalid(projector_instance, "Data must be a bool.")
    ELSE Ok([ projector_instance EXCEPT !.blank = (data = "true"), !.scale = 0 ], 0, 1)

\* control_blank: projector_instance.blank = request.data and save().
control_blank(projector_instance, data) ==
    IF ~IsBool(data)
    THEN Invalid(projector_instance, "Data must be a bool.")
    ELSE Ok([ projector_instance EXCEPT !.blank = (data = "true") ], 0, 1)

\* The check of control_blank comes before get_object().
ControlBlank(pk, data) ==
    /\ request = NoRequest
    /\ before' = Projector
    /\ found' = Settings
    /\ request' = [ action |-> "control_blank", pk |-> pk, data |-> data ]
    /\ IF ~IsBool(data)
       THEN Serve(pk, control_blank(NewProjector, data))
       ELSE IF pk \in DOMAIN Projector
       THEN Serve(pk, control_blank(Projector[pk], data))
       ELSE NotFound
    /\ UNCHANGED << worker, round >>

\* request.data of control_view that the checks of the handler refuse.
ControlRefused == [ action |-> "scale", direction |-> "left" ]

\* control_view served alone: the checks come before get_object(); the
\* row is saved with skip_autoupdate, read again, and one notification is
\* sent.  Requests are served while the level stays within 0..MaxLevel.
ControlView(pk, data) ==
    /\ request = NoRequest
    /\ before' = Projector
    /\ found' = Settings
    /\ request' = [ action |-> "control_view", pk |-> pk, data |-> data ]
    /\ IF data \notin ControlInputs
       THEN Serve(pk, Invalid(NewProjector, "Data must be a dictionary with an action and a direction."))
       ELSE IF pk \in DOMAIN Projector
       THEN LET saved == control_view(Projector[pk], Projector[pk], data)
            IN  /\ saved[data.action] \in 0..MaxLevel
                /\ Serve(pk, Ok(saved, 0, 1))
       ELSE NotFound
    /\ UNCHANGED << worker, round >>

FrameNext ==
    \/ \E pk \in ProjIds, element \in { [name |-> "a", x |-> 1], [x |-> 1] } :
          ActivateElements(pk, << element >>)
    \/ \E pk \in ProjIds, data \in { << >>, << [name |-> "a", x |-> 1] >> } :
          PruneElements(pk, data)
    \/ \E pk \in ProjIds, key \in KeyInputs :
          UpdateElements(pk, key :> [name |-> "b", stable |-> FALSE])
    \/ \E pk \in ProjIds, key \in KeyInputs :
          DeactivateElements(pk, << key >>)
    \/ \E pk \in ProjIds :
          ClearElements(pk)
    \/ \E pk \in ProjIds,
          data \in { [ width |-> 800, height |-> 340 ], [ width |-> 799, height |-> 340 ] } :
          SetResolution(pk, data)
    \/ \E pk \in ProjIds, data \in ScrollInputs \cup {NotInt} :
          SetScroll(pk, data)
    \/ \E pk \in ProjIds, data \in BlankInputs :
          ControlBlank(pk, data)
    \/ \E pk \in ProjIds, data \in ControlInputs \cup {ControlRefused} :
          ControlView(pk, data)
    \/ Respond

FrameSpec == Init /\ [][FrameNext]_vars

\* ------------------------------------------------ vocabulary of the claims
\* The entry has stable = true.
StableTrue(element) == "stable" \in DOMAIN element /\ element["stable"] = TRUE

\* new holds exactly the stable entries of old: same keys, same values.
ExactlyStableOf(new, old) ==
    /\ DOMAIN new = { key \in DOMAIN old : StableTrue(old[key]) }
    /\ \A key \in DOMAIN new : new[key] = old[key]

\* Every key that some projector of objects uses.
KeysOf(objects) == UNION { DOMAIN objects[p].config : p \in DOMAIN objects }

\* new holds the stable entries of old and, under keys that no projector of
\* objects used, one entry per item of the list elements.
StablePlusFresh(new, old, elements, objects) ==
    LET kept == { key \in DOMAIN old : StableTrue(old[key]) }
        minted == DOMAIN new \ DOMAIN old
    IN  /\ DOMAIN new \cap DOMAIN old = kept
        /\ \A key \in kept : new[key] = old[key]
        /\ minted \cap KeysOf(objects) = {}
        /\ Cardinality(minted) = Len(elements)
        /\ \A key \in minted :
              Cardinality({ k \in minted : new[k] = new[key] }) =
              Cardinality({ i \in 1..Len(elements) : elements[i] = new[key] })
        /\ \A i \in 1..Len(elements) : \E key \in minted : new[key] = elements[i]

\* The projectors of objects that show element.
ShownOn(objects, element) ==
    { p \in DOMAIN objects :
        \E key \in DOMAIN objects[p].config : objects[p].config[key] = element }

\* The request just served is a project request, answered with status.
ProjectEnded(status) ==
    request.action = "project" /\ response.status = status

\* The request just served is the detail route action on a projector that
\* exists.
Served(action) ==
    request.action = action /\ request.pk \in DOMAIN before

\* --------------------------------------------------------------------- C1
\* C1: a project request rejected with InvalidInput has cleared nothing: every
\* projector named in clear_ids has the elements and the scroll it had
\* before the request.
C1_RejectedProjectClearsNothing ==
    ProjectEnded("InvalidInput") =>
        \A p \in request.data.clear_ids \cap DOMAIN before :
            /\ p \in DOMAIN Projector
            /\ Projector[p].config = before[p].config
            /\ Projector[p].scroll = before[p].scroll

\* A project request was rejected because its prune projector does not exist,
\* and clear_ids names a projector that shows a non-stable element.
C1_Witness ==
    /\ ProjectEnded("InvalidInput")
    /\ request.data.prune.given
    /\ request.data.prune.id # NotInt
    /\ request.data.prune.id \notin DOMAIN before
    /\ \E p \in request.data.clear_ids \cap DOMAIN before :
          \E key \in DOMAIN before[p].config : ~StableTrue(before[p].config[key])

\* --------------------------------------------------------------------- C2
\* The request passes the checks of project: integer ids, and a prune, if
\* given, with an existing projector and a named element.
ProjectWellFormed ==
    /\ NotInt \notin request.data.clear_ids
    /\ request.data.prune.given =>
          /\ request.data.prune.id \in DOMAIN before
          /\ ~NameMissing(request.data.prune.element)

\* The prune projector holds its stable entries and one fresh entry equal to
\* the prune element.
PruneTargetHolds ==
    request.data.prune.given =>
        LET t == request.data.prune.id
        IN  StablePlusFresh(Projector[t].config, before[t].config,
                            << request.data.prune.element >>, before)

\* C2 as stated: after a successful project, every existing projector of
\* clear_ids holds exactly its formerly stable entries (none that is not
\* stable), and the prune projector holds its stable entries plus the element.
C2_Original ==
    ProjectEnded("ok") =>
        /\ \A p \in request.data.clear_ids \cap DOMAIN before :
              ExactlyStableOf(Projector[p].config, before[p].config)
        /\ PruneTargetHolds

\* C2, amended: after a successful project, every existing projector of
\* clear_ids other than the prune projector holds exactly its formerly stable
\* entries; ids of clear_ids that name no projector cause no error; the prune
\* projector holds its stable entries plus one fresh entry equal to the element.
C2_ProjectClearsAndPrunes ==
    request.action = "project" =>
        /\ ProjectWellFormed => response.status = "ok"
        /\ response.status = "ok" =>
              /\ \A p \in request.data.clear_ids \cap DOMAIN before :
                    (request.data.prune.given /\ request.data.prune.id = p)
                    \/ ExactlyStableOf(Projector[p].config, before[p].config)
              /\ PruneTargetHolds

\* A successful project whose clear_ids name a projector that does not exist
\* and one, not the prune projector, that showed stable and non-stable entries.
C2_Witness ==
    /\ ProjectEnded("ok")
    /\ request.data.prune.given
    /\ request.data.clear_ids \ DOMAIN before # {}
    /\ \E p \in request.data.clear_ids \cap DOMAIN before :
          /\ p # request.data.prune.id
          /\ \E key \in DOMAIN before[p].config : ~StableTrue(before[p].config[key])

\* --------------------------------------------------------------------- C3
\* clear_ids lists every projector that showed element before the request.
ClearsAllShowing(element) ==
    ShownOn(before, element) \subseteq request.data.clear_ids

\* The elements some projector showed before the request.
ShownBefore ==
    UNION { { before[p].config[key] : key \in DOMAIN before[p].config } :
            p \in DOMAIN before }

\* C3 as stated: when clear_ids lists every projector showing an element, a
\* successful project leaves it on the prune projector alone (prune given,
\* the element being the prune element) or on no projector (prune omitted),
\* whatever its fields.
C3_Original ==
    ProjectEnded("ok") =>
        IF request.data.prune.given
        THEN ClearsAllShowing(request.data.prune.element) =>
                ShownOn(Projector, request.data.prune.element) = { request.data.prune.id }
        ELSE \A element \in ShownBefore :
                ClearsAllShowing(element) => ShownOn(Projector, element) = {}

\* C3, amended: the same for every element that is not stable; a stable
\* element stays on the projectors that are cleared.
C3_NonStableOnceOrNowhere ==
    ProjectEnded("ok") =>
        IF request.data.prune.given
        THEN (~StableTrue(request.data.prune.element)
              /\ ClearsAllShowing(request.data.prune.element)) =>
                /\ ShownOn(Projector, request.data.prune.element) = { request.data.prune.id }
                /\ Cardinality({ key \in DOMAIN Projector[request.data.prune.id].config :
                                   Projector[request.data.prune.id].config[key]
                                     = request.data.prune.element }) = 1
        ELSE \A element \in ShownBefore :
                (~StableTrue(element) /\ ClearsAllShowing(element)) =>
                    ShownOn(Projector, element) = {}

\* A non-stable element shown on one projector was moved to the other one by
\* a successful project.
C3_Witness ==
    /\ ProjectEnded("ok")
    /\ request.data.prune.given
    /\ ~StableTrue(request.data.prune.element)
    /\ ShownOn(before, request.data.prune.element) # {}
    /\ request.data.prune.id \notin ShownOn(before, request.data.prune.element)
    /\ ClearsAllShowing(request.data.prune.element)
    /\ ShownOn(Projector, request.data.prune.element) = { request.data.prune.id }

\* --------------------------------------------------------------------- C4
\* The keys of the list, and whether one occurs twice.
ListItems(data) == { data[i] : i \in 1..Len(data) }
HasDuplicate(data) == Cardinality(ListItems(data)) < Len(data)

\* C4: deactivate_elements is all or nothing.  With a key that is not in the
\* mapping when its turn comes (unknown, or listed twice) the request is
\* rejected with InvalidInput, "Invalid UUID." for well-formed keys, and the
\* projector table is what it was; otherwise the result is the old mapping
\* without exactly the listed keys.
C4_DeactivateAllOrNothing ==
    Served("deactivate_elements") =>
        LET old == before[request.pk].config
            data == request.data
        IN  IF ~(ListItems(data) \subseteq DOMAIN old) \/ HasDuplicate(data)
            THEN /\ response.status = "InvalidInput"
                 /\ (\A i \in 1..Len(data) : IsHex(data[i]))
                       => response.detail = "Invalid UUID."
                 /\ Projector = before
                 /\ autoupdate = << >>
            ELSE /\ response.status = "ok"
                 /\ DOMAIN Projector[request.pk].config = DOMAIN old \ ListItems(data)
                 /\ \A key \in DOMAIN old \ ListItems(data) :
                       Projector[request.pk].config[key] = old[key]

\* A deactivate_elements request whose first key is in the mapping and whose
\* second key is not was rejected.
C4_Witness ==
    /\ Served("deactivate_elements")
    /\ Len(request.data) = 2
    /\ request.data[1] \in DOMAIN before[request.pk].config
    /\ request.data[2] \notin DOMAIN before[request.pk].config
    /\ IsHex(request.data[2])
    /\ response.status = "InvalidInput"

\* --------------------------------------------------------------------- C5
\* C5: activate_elements and prune_elements with an element that has no
\* non-null name, and update_elements with a key that is not in the mapping,
\* are rejected with InvalidInput ("Wrong UUID." for well-formed update keys);
\* the projector table is unchanged and no notification is sent, also when
\* earlier items of the batch were valid.
C5_BatchesAllOrNothing ==
    /\ (Served("activate_elements") \/ Served("prune_elements")) =>
          ((\E i \in 1..Len(request.data) : NameMissing(request.data[i])) =>
              /\ response.status = "InvalidInput"
              /\ Projector = before
              /\ autoupdate = << >>)
    /\ Served("update_elements") =>
          (~(DOMAIN request.data \subseteq DOMAIN before[request.pk].config) =>
              /\ response.status = "InvalidInput"
              /\ update_keys_wellformed(request.data) =>
                    response.detail = "Invalid projector element. Wrong UUID."
              /\ Projector = before
              /\ autoupdate = << >>)

\* An activate_elements request with a valid element followed by one without
\* a name was rejected, on a projector that already showed something.
C5_Witness ==
    /\ Served("activate_elements")
    /\ Len(request.data) = 2
    /\ ~NameMissing(request.data[1])
    /\ NameMissing(request.data[2])
    /\ DOMAIN before[request.pk].config # {}
    /\ response.status = "InvalidInput"

\* --------------------------------------------------------------------- C7
\* C7: prune_elements on valid input leaves exactly the stable entries of the
\* old mapping and one fresh entry per input element, so
\* (stable entries) + (length of the list) entries, and scroll 0.
C7_PruneResult ==
    Served("prune_elements") =>
        ((\A i \in 1..Len(request.data) : ~NameMissing(request.data[i])) =>
            LET old == before[request.pk].config
                new == Projector[request.pk].config
            IN  /\ response.status = "ok"
                /\ StablePlusFresh(new, old, request.data, before)
                /\ Cardinality(DOMAIN new) =
                      Cardinality({ key \in DOMAIN old : StableTrue(old[key]) })
                      + Len(request.data)
                /\ \A key \in DOMAIN old : ~StableTrue(old[key]) => key \notin DOMAIN new
                /\ Projector[request.pk].scroll = 0)

\* A prune_elements request with an element was served on a scrolled projector
\* that showed a non-stable entry.
C7_Witness ==
    /\ Served("prune_elements")
    /\ response.status = "ok"
    /\ Len(request.data) >= 1
    /\ before[request.pk].scroll # 0
    /\ \E key \in DOMAIN before[request.pk].config :
          ~StableTrue(before[request.pk].config[key])

\* --------------------------------------------------------------------- C8
\* The projectors that the first step of project clears and the second step
\* does not prune.
ClearedOnly ==
    { p \in request.data.clear_ids \cap DOMAIN before :
        ~(request.data.prune.given /\ request.data.prune.id = p) }

\* C8 as stated: clearing resets a nonzero scroll to 0, for clear_elements and
\* for every projector cleared in the first step of project.
C8_Original ==
    /\ (Served("clear_elements") /\ response.status = "ok") =>
          Projector[request.pk].scroll = 0
    /\ ProjectEnded("ok") =>
          \A p \in request.data.clear_ids \cap DOMAIN before : Projector[p].scroll = 0

\* C8, amended: clearing reduces the mapping to its stable entries and leaves
\* scroll as it was, for clear_elements and for every projector that project
\* only clears; scroll is reset to 0 on the prune projector alone.
C8_ClearKeepsScroll ==
    /\ (Served("clear_elements") /\ response.status = "ok") =>
          /\ ExactlyStableOf(Projector[request.pk].config, before[request.pk].config)
          /\ Projector[request.pk].scroll = before[request.pk].scroll
    /\ ProjectEnded("ok") =>
          /\ \A p \in ClearedOnly :
                /\ ExactlyStableOf(Projector[p].config, before[p].config)
                /\ Projector[p].scroll = before[p].scroll
          /\ request.data.prune.given => Projector[request.data.prune.id].scroll = 0

\* clear_elements was served on a scrolled projector with a non-stable entry.
C8_Witness ==
    /\ Served("clear_elements")
    /\ response.status = "ok"
    /\ before[request.pk].scroll # 0
    /\ \E key \in DOMAIN before[request.pk].config :
          ~StableTrue(before[request.pk].config[key])

\* --------------------------------------------------------------------- C9
\* C9: prune_elements with the empty list and clear_elements give the same
\* mapping from the same start: what one request left is what the other
\* handler computes for the projector as it was.
C9_PruneEmptyIsClear ==
    /\ (Served("prune_elements") /\ request.data = << >>) =>
          /\ response.status = "ok"
          /\ Projector[request.pk].config = clear(before[request.pk]).instance.config
    /\ Served("clear_elements") =>
          /\ response.status = "ok"
          /\ Projector[request.pk].config =
                prune(before[request.pk], << >>, uuid_count).instance.config

\* prune_elements with the empty list was served on a projector that showed
\* an entry with stable = true and one with stable = false.
C9_Witness ==
    /\ Served("prune_elements")
    /\ request.data = << >>
    /\ \E key \in DOMAIN before[request.pk].config :
          StableTrue(before[request.pk].config[key])
    /\ \E key \in DOMAIN before[request.pk].config :
          /\ "stable" \in DOMAIN before[request.pk].config[key]
          /\ ~StableTrue(before[request.pk].config[key])

\* -------------------------------------------------------------------- C10
\* C10: a successful update_elements keeps the key set; under an updated key
\* every field of the partial object has the partial object's value and every
\* other field of the old element is kept; the other keys are unchanged.
C10_UpdateMerges ==
    (Served("update_elements") /\ response.status = "ok") =>
        LET old == before[request.pk].config
            new == Projector[request.pk].config
            data == request.data
        IN  /\ DOMAIN new = DOMAIN old
            /\ \A key \in DOMAIN old \ DOMAIN data : new[key] = old[key]
            /\ \A key \in DOMAIN data :
                  /\ DOMAIN new[key] = DOMAIN old[key] \cup DOMAIN data[key]
                  /\ \A f \in DOMAIN data[key] : new[key][f] = data[key][f]
                  /\ \A f \in DOMAIN old[key] \ DOMAIN data[key] :
                        new[key][f] = old[key][f]

\* An update overwrote one field, added one and kept one of an element, and
\* left another key of the mapping alone.
C10_Witness ==
    /\ Served("update_elements")
    /\ response.status = "ok"
    /\ \E key \in DOMAIN request.data :
          LET old == before[request.pk].config[key]
              upd == request.data[key]
          IN  /\ \E f \in DOMAIN upd \cap DOMAIN old : upd[f] # old[f]
              /\ DOMAIN upd \ DOMAIN old # {}
              /\ DOMAIN old \ DOMAIN upd # {}
    /\ DOMAIN before[request.pk].config \ DOMAIN request.data # {}

\* --------------------------------------------------------------------- C6
\* A request served alone, from get_object() to save(), on the table and
\* key count of state.
ServedAlone(req, state) ==
    LET result == Handle(req, state.objects[req.pk], state.uuid_count)
    IN  IF result.status = "ok"
        THEN [ objects |-> [ state.objects EXCEPT ![req.pk] = result.instance ],
               uuid_count |-> state.uuid_count + result.minted ]
        ELSE state

\* The table after first and then second are served one after the other.
Serial(first, second, state) ==
    ServedAlone(second, ServedAlone(first, state)).objects

\* C6: no lost update.  When two overlapping requests on one projector have
\* both ended, the persisted table is the one that serving them one after the
\* other, in one of the two orders, leaves.
C6_NoLostUpdate ==
    ( /\ \A w \in Workers : worker[w].pc = "idle"
      /\ Len(round.requests) = 2
      /\ round.requests[1].pk = round.requests[2].pk )
    => LET start == [ objects |-> round.objects, uuid_count |-> round.uuid_count ]
       IN  Projector \in { Serial(round.requests[1], round.requests[2], start),
                           Serial(round.requests[2], round.requests[1], start) }

\* -------------------------------------------------------------------- C11
\* The keys that uuid4() handed out to the request just served, n of them.
HandedOut(n) == (uuid_count - n + 1)..uuid_count

\* new is retained, a part of the old mapping, plus n entries under the keys
\* that uuid4() handed out to this request, none of which was in old.
FreshKeys(new, retained, old, n) ==
    LET minted == DOMAIN new \ DOMAIN retained
    IN  /\ minted \cap DOMAIN old = {}
        /\ minted = HandedOut(n)
        /\ Cardinality(minted) = n
        /\ Cardinality(DOMAIN new) = Cardinality(DOMAIN retained) + n
        /\ \A key \in DOMAIN retained :
              key \in DOMAIN new /\ new[key] = retained[key]

\* The stable entries of a mapping.
StablePart(old) ==
    [ key \in { k \in DOMAIN old : StableTrue(old[k]) } |-> old[key] ]

\* C11: every key minted by activate_elements, prune_elements or project is
\* fresh: it is one that uuid4() handed out in this call, it was not in the
\* target mapping, and the keys of one call differ, so that a list of n
\* elements adds exactly n entries to the retained part of the old mapping
\* and overwrites no retained entry.
C11_MintedKeysFresh ==
    /\ (Served("activate_elements") /\ response.status = "ok") =>
          FreshKeys(Projector[request.pk].config, before[request.pk].config,
                    before[request.pk].config, Len(request.data))
    /\ (Served("prune_elements") /\ response.status = "ok") =>
          FreshKeys(Projector[request.pk].config,
                    StablePart(before[request.pk].config),
                    before[request.pk].config, Len(request.data))
    /\ (ProjectEnded("ok") /\ request.data.prune.given) =>
          FreshKeys(Projector[request.data.prune.id].config,
                    StablePart(before[request.data.prune.id].config),
                    before[request.data.prune.id].config, 1)

\* prune_elements stored an element on a projector that kept a stable entry.
C11_Witness ==
    /\ Served("prune_elements")
    /\ response.status = "ok"
    /\ Len(request.data) = 1
    /\ DOMAIN StablePart(before[request.pk].config) # {}

\* -------------------------------------------------------------------- C12
\* C12: a successful activate_elements persists the old mapping, every entry
\* unchanged whether stable or not, plus one new entry per input element that
\* holds that element; nothing is removed and no other field of the projector
\* (scroll, scale) changes.  A list of named elements is accepted.
C12_AddKeepsEverything ==
    Served("activate_elements") =>
        LET old == before[request.pk].config
            new == Projector[request.pk].config
            data == request.data
            minted == DOMAIN new \ DOMAIN old
        IN  /\ (\A i \in 1..Len(data) : ~NameMissing(data[i])) => response.status = "ok"
            /\ response.status = "ok" =>
                  /\ \A key \in DOMAIN old : key \in DOMAIN new /\ new[key] = old[key]
                  /\ Cardinality(minted) = Len(data)
                  /\ \A i \in 1..Len(data) :
                        Cardinality({ key \in minted : new[key] = data[i] }) =
                        Cardinality({ j \in 1..Len(data) : data[j] = data[i] })
                  /\ Projector[request.pk] =
                        [ before[request.pk] EXCEPT !.config = new ]
                  /\ \A p \in DOMAIN before \ {request.pk} : Projector[p] = before[p]

\* An element was added to a scrolled projector that showed a non-stable
\* entry.
C12_Witness ==
    /\ Served("activate_elements")
    /\ response.status = "ok"
    /\ Len(request.data) >= 1
    /\ before[request.pk].scroll # 0
    /\ \E key \in DOMAIN before[request.pk].config :
          ~StableTrue(before[request.pk].config[key])

\* -------------------------------------------------------------------- C13
\* Two overlapping requests on one projector have both ended.
RoundOver ==
    /\ \A w \in Workers : worker[w].pc = "idle"
    /\ Len(round.requests) = 2
    /\ round.requests[1].pk = round.requests[2].pk

\* Both requests of the round are control_view with this action and direction.
BothAre(action, direction) ==
    \A i \in 1..2 :
        /\ round.requests[i].action = "control_view"
        /\ round.requests[i].data = [ action |-> action, direction |-> direction ]

\* C13: two concurrent control_view requests "scale up" on a projector leave
\* its scale two above the scale it had, so 2 when it was 0 and never 1, in
\* every interleaving; likewise two concurrent "scroll up" and scroll.
C13_TwoUpsAddTwo ==
    \A action \in {"scale", "scroll"} :
        (RoundOver /\ BothAre(action, "up")) =>
            LET pk == round.requests[1].pk
            IN  Projector[pk][action] = round.objects[pk][action] + 2

\* Two overlapping "scale up" requests on a projector at scale 0 have ended.
C13_Witness ==
    /\ RoundOver
    /\ BothAre("scale", "up")
    /\ round.objects[round.requests[1].pk].scale = 0
    /\ Projector[round.requests[1].pk].scale = 2

\* -------------------------------------------------------------------- C14
\* The step of a control_view request on a field: +1, -1, or 0 when its
\* action names the other field.
StepOn(req, field) ==
    IF req.data.action # field THEN 0
    ELSE IF req.data.direction = "up" THEN 1 ELSE -1

\* C14: no control_view update is lost.  When two overlapping up or down
\* requests on one projector have ended, in any mix of scale and scroll, the
\* scale is the scale at the start plus the scale steps and the scroll is
\* the scroll at the start plus the scroll steps.
C14_NoLostControlUpdate ==
    ( /\ RoundOver
      /\ \A i \in 1..2 : /\ round.requests[i].action = "control_view"
                          /\ round.requests[i].data.direction # "reset" )
    => LET pk == round.requests[1].pk
       IN  \A field \in {"scale", "scroll"} :
              Projector[pk][field] =
                 round.objects[pk][field] + StepOn(round.requests[1], field)
                                          + StepOn(round.requests[2], field)

ResolutionAllowed(data) ==
    /\ "width" \in DOMAIN data /\ "height" \in DOMAIN data
    /\ data.width # NotInt /\ data.height # NotInt
    /\ data.width \in 800..3840
    /\ data.height \in 340..2880

C18_BroadcastToggles ==
    /\ request.action = "broadcast" =>
          /\ response.status = "ok"
          /\ found.projector_broadcast = 0 => projector_broadcast = request.pk
          /\ found.projector_broadcast # 0 =>
                (projector_broadcast = 0 /\ projector_broadcast # request.pk)
    /\ \A p \in ProjIds, q \in ProjIds : broadcast(broadcast(0, p), q) = 0

\* broadcast was requested for one projector while the other one was the
\* broadcast projector.
C18_Witness ==
    /\ request.action = "broadcast"
    /\ found.projector_broadcast # 0
    /\ found.projector_broadcast # request.pk
    /\ projector_broadcast = 0

\* -------------------------------------------------------------------- C19
\* What every set_projectiondefault request does apart from the way a
\* missing projection default is reported: with an existing projection
\* default d and an existing projector p, d points at p and the others are
\* unchanged; with a projector that does not exist the request fails and
\* nothing changes.
ProjectionDefaultSet ==
    LET d == request.data
        old == found.ProjectionDefault
    IN  /\ (d \in DOMAIN old /\ request.pk \in DOMAIN before) =>
              /\ response.status = "ok"
              /\ ProjectionDefault = [ old EXCEPT ![d] = request.pk ]
        /\ (d \in DOMAIN old /\ request.pk \notin DOMAIN before) =>
              /\ response.status = "NotFound"
              /\ ProjectionDefault = old
        /\ d \notin DOMAIN old => ProjectionDefault = old

\* C19 as stated: a request that names no existing projection default is
\* answered with NotFound.
C19_Original ==
    request.action = "set_projectiondefault" =>
        /\ ProjectionDefaultSet
        /\ (request.data # NotInt /\ request.data \notin DOMAIN found.ProjectionDefault)
              => response.status = "NotFound"

\* C19, amended: a request that names no existing projection default is
\* rejected with InvalidInput, "... was not found."; the rest as stated.
C19_ProjectionDefaultSet ==
    request.action = "set_projectiondefault" =>
        /\ ProjectionDefaultSet
        /\ (request.data # NotInt /\ request.data \notin DOMAIN found.ProjectionDefault)
              => /\ response.status = "InvalidInput"
                 /\ response.detail = "The projectiondefault was not found."

\* set_projectiondefault was asked for a projection default that does not
\* exist, after the other projection default had been moved to projector 2.
C19_Witness ==
    /\ request.action = "set_projectiondefault"
    /\ request.data = 3
    /\ response.status = "InvalidInput"
    /\ \E d \in DOMAIN ProjectionDefault : ProjectionDefault[d] = 2

\* -------------------------------------------------------------------- C20
\* The value of the body: None when the body has no "value".
BodyValue(data) == IF "value" \in DOMAIN data THEN data.value ELSE None

\* What the config update does for a body with a value: NotFound for a key
\* the registry does not know, InvalidInput for a value the registry refuses,
\* both without a change; otherwise the value is stored and the result is
\* {key, value}.
ConfigUpdated ==
    LET key == request.key
        value == BodyValue(request.data)
    IN  value # None =>
          IF key \notin DOMAIN found.ConfigStore
          THEN response.status = "NotFound" /\ ConfigStore = found.ConfigStore
          ELSE IF value = Unacceptable
          THEN response.status = "InvalidInput" /\ ConfigStore = found.ConfigStore
          ELSE /\ response.status = "ok"
               /\ ConfigStore = [ found.ConfigStore EXCEPT ![key] = value ]
               /\ response.data = [ key |-> key, value |-> value ]

\* C20 as stated: a request for a key the registry does not know is answered
\* with NotFound whatever its body is.
C20_Original ==
    request.action = "config_update" =>
        /\ ConfigUpdated
        /\ request.key \notin DOMAIN found.ConfigStore =>
              (response.status = "NotFound" /\ ConfigStore = found.ConfigStore)

\* C20, amended: a request whose body has no value, or null, is rejected
\* with InvalidInput whether or not the registry knows the key, and nothing
\* is stored; with a value, the outcome is as stated.
C20_ConfigUpdate ==
    request.action = "config_update" =>
        /\ ConfigUpdated
        /\ BodyValue(request.data) = None =>
              /\ response.status = "InvalidInput"
              /\ response.detail = "Invalid input. Config value is missing."
              /\ ConfigStore = found.ConfigStore

\* A value for a key the registry does not know was refused with NotFound
\* after the value of a known key had been changed.
C20_Witness ==
    /\ request.action = "config_update"
    /\ request.key \notin DOMAIN found.ConfigStore
    /\ BodyValue(request.data) # None
    /\ response.status = "NotFound"
    /\ found.ConfigStore # ConfigDefaults

\* -------------------------------------------------------------------- C21
\* How often a notification occurs in the log of the request.
Occurrences(item) ==
    Cardinality({ i \in 1..Len(autoupdate) : autoupdate[i] = item })

\* C21: in clear_history every history entry that exists when the call
\* starts is reported deleted exactly once, as ("core/history", pk), and
\* nothing else is reported deleted; the deletions are all reported before
\* the rebuild starts; the rebuilt entries are reported changed only after
\* the rebuild, once each and after the deletions; at the end the table holds
\* none of the old entries and exactly one entry per object that exists.
C21_ClearHistoryOrder ==
    \A w \in Workers :
        LET pc == worker[w].pc
            started == worker[w].started
        IN  /\ pc \in {"collected", "deleted"} => autoupdate = << >>
            /\ pc \in {"collected", "deleted", "informed"} =>
                  DOMAIN History.objects \subseteq DOMAIN started
            /\ pc \in {"informed", "rebuilt", "done"} =>
                  /\ \A pk \in DOMAIN started : Occurrences(HistoryDeleted(pk)) = 1
                  /\ \A i \in 1..Len(autoupdate) :
                        ~autoupdate[i].changed =>
                            /\ autoupdate[i].collection = "core/history"
                            /\ autoupdate[i].id \in DOMAIN started
            /\ pc \in {"informed", "rebuilt"} =>
                  \A i \in 1..Len(autoupdate) : ~autoupdate[i].changed
            /\ pc = "done" =>
                  /\ \A pk \in DOMAIN History.objects :
                        Occurrences(HistoryChanged(pk)) = 1
                  /\ \A i \in 1..Len(autoupdate) :
                        autoupdate[i].changed => autoupdate[i].id \in DOMAIN History.objects
                  /\ \A i \in 1..Len(autoupdate), j \in 1..Len(autoupdate) :
                        (~autoupdate[i].changed /\ autoupdate[j].changed) => i < j
                  /\ DOMAIN History.objects \cap DOMAIN started = {}
                  /\ Cardinality(DOMAIN History.objects) = Cardinality(DOMAIN Projector)
                  /\ \A p \in DOMAIN Projector :
                        \E pk \in DOMAIN History.objects :
                            History.objects[pk] = [ collection |-> "core/projector", id |-> p ]

\* clear_history has ended on a table that held two entries, one of them of
\* a projector that had been destroyed.
C21_Witness ==
    \E w \in Workers :
        /\ worker[w].pc = "done"
        /\ Cardinality(DOMAIN worker[w].started) = 2
        /\ \E pk \in DOMAIN worker[w].started :
              worker[w].started[pk].id \notin DOMAIN Projector
        /\ DOMAIN History.objects # {}

\* -------------------------------------------------------------------- C22
\* The projectors that the request just served has pruned or cleared.
PrunedOrCleared ==
    IF request.action = "project"
    THEN (request.data.clear_ids \cap DOMAIN before)
         \cup (IF request.data.prune.given THEN {request.data.prune.id} ELSE {})
    ELSE {request.pk}

\* C22: over prune_elements, clear_elements and project, an entry with
\* stable = true is never removed or altered: it stays under its key with its
\* value; an entry whose stable is absent or false is gone after a successful
\* prune, clear or project-clear of its projector.
C22_StableSurvives ==
    (Served("prune_elements") \/ Served("clear_elements") \/ request.action = "project") =>
        /\ \A p \in DOMAIN before :
              \A key \in DOMAIN before[p].config :
                  StableTrue(before[p].config[key]) =>
                      /\ p \in DOMAIN Projector
                      /\ key \in DOMAIN Projector[p].config
                      /\ Projector[p].config[key] = before[p].config[key]
        /\ response.status = "ok" =>
              \A p \in PrunedOrCleared :
                  \A key \in DOMAIN before[p].config :
                      ~StableTrue(before[p].config[key]) =>
                          key \notin DOMAIN Projector[p].config

\* A successful project cleared a projector that showed an entry with
\* stable = true and an entry without a stable field.
C22_Witness ==
    /\ ProjectEnded("ok")
    /\ \E p \in request.data.clear_ids \cap DOMAIN before :
          /\ \E key \in DOMAIN before[p].config : StableTrue(before[p].config[key])
          /\ \E key \in DOMAIN before[p].config :
                ~("stable" \in DOMAIN before[p].config[key])

\* -------------------------------------------------------------------- C24
\* The request just served is a project request with integer ids whose prune
\* element has no name.
ProjectNameless ==
    /\ request.action = "project"
    /\ NotInt \notin request.data.clear_ids
    /\ request.data.prune.given
    /\ request.data.prune.id # NotInt
    /\ NameMissing(request.data.prune.element)

\* C24 as stated: a request whose element has no name and whose prune
\* projector does not exist is rejected with the missing-name error.
C24_Original ==
    (ProjectNameless /\ request.data.prune.id \notin DOMAIN before) =>
        /\ response.status = "InvalidInput"
        /\ response.detail = "Invalid projector element. Name is missing."

\* C24, amended: the existence of the prune projector is checked before the
\* name of the element, and both before the first step: the request with
\* both defects is rejected with the projector-does-not-exist error, the one
\* with a nameless element for an existing projector with the missing-name
\* error, and neither has cleared anything.
C24_ExistenceBeforeName ==
    ProjectNameless =>
        /\ response.status = "InvalidInput"
        /\ response.detail =
              IF request.data.prune.id \notin DOMAIN before
              THEN "The projector does not exist"
              ELSE "Invalid projector element. Name is missing."
        /\ Projector = before
        /\ autoupdate = << >>

\* A project request with a nameless element for a projector that does not
\* exist was rejected; its clear_ids name a projector that shows something.
C24_Witness ==
    /\ ProjectNameless
    /\ request.data.prune.id \notin DOMAIN before
    /\ response.detail = "The projector does not exist"
    /\ \E p \in request.data.clear_ids \cap DOMAIN before :
          DOMAIN before[p].config # {}

\* -------------------------------------------------------------------- C26
\* C26: after any sequence of broadcast and destroy requests,
\* projector_broadcast is 0 or the id of a projector that exists.
C26_BroadcastTargetExists ==
    projector_broadcast = 0 \/ projector_broadcast \in DOMAIN Projector

C23_PruneIsOneUpdate ==
    /\ [](\A w \in Workers :
            worker[w].pc = "saved" =>
              LET row == Projector[worker[w].request.pk]
              IN  ~(/\ row.config = worker[w].projector_instance.config
                    /\ row.scroll = worker[w].projector_instance.scroll))
    /\ [][\A w \in Workers :
            PruneResetScroll(w) =>
              Projector[worker[w].request.pk].scroll
                = worker[w].projector_instance.scroll]_vars

\* -------------------------------------------------------------------- C25
\* C25: once the checks of project have found the prune projector to
\* exist, the lookup of the second step succeeds and the prune is applied,
\* whatever is served in between, a destroy of that projector included:
\* no project request fails after its first step has cleared projectors.
C25_SecondStepSucceeds ==
    \A w \in Workers :
        (worker[w].pc = "done" /\ worker[w].cleared) => worker[w].status = "ok"

\* -------------------------------------------------------------------- C28
\* The fields of a projector row.
Fields == { "config", "scale", "scroll", "width", "height", "blank" }

\* The fields that the request just served may change on its projector.
NamedFields ==
    IF request.action \in { "activate_elements", "update_elements",
                            "deactivate_elements", "clear_elements" }
    THEN { "config" }
    ELSE IF request.action = "prune_elements" THEN { "config", "scroll" }
    ELSE IF request.action = "set_resolution" THEN { "width", "height" }
    ELSE IF request.action = "set_scroll" THEN { "scroll" }
    ELSE IF request.action = "control_blank" THEN { "blank" }
    ELSE IF request.action = "control_view" /\ request.data \in ControlInputs
    THEN { request.data.action }
    ELSE { }

\* C28: a request of activate_elements, prune_elements, update_elements,
\* deactivate_elements, clear_elements, set_resolution, set_scroll,
\* control_blank or control_view on projector pk leaves every field of every
\* other projector as it was, creates and deletes no projector, and on pk
\* changes only the fields it names: config for activate, update and
\* deactivate (and clear), width and height for set_resolution, scroll for
\* set_scroll, blank for control_blank, and the one of scale and scroll that
\* is the action of control_view (prune: config and scroll).
C28_Frame ==
    request # NoRequest =>
        /\ DOMAIN Projector = DOMAIN before
        /\ \A p \in DOMAIN Projector :
             \A field \in Fields :
                (p # request.pk \/ field \notin NamedFields) =>
                    Projector[p][field] = before[p][field]

\* A control_blank request that has changed blank on a projector whose
\* config, scale and scroll are not the initial ones, while the other
\* projector shows elements and is scrolled.
C28_Witness ==
    /\ request.action = "control_blank"
    /\ response.status = "ok"
    /\ Projector[request.pk].blank # before[request.pk].blank
    /\ Projector[request.pk].config # << >>
    /\ Projector[request.pk].scale # 0
    /\ Projector[request.pk].scroll # 0
    /\ \E p \in DOMAIN Projector \ {request.pk} :
          /\ Projector[p].config # << >>
          /\ Projector[p].scroll # 0
          /\ Projector[p].blank

====
